---- MODULE Spec2Model ----
(***************************************************************************)
(* Itinerary planner of nashik-darshan: ItineraryService.CreateItinerary   *)
(* and optimizeRoute / findNearest (docs/prds/itenary.md, sections 5.3 and *)
(* Phase 4), as a state machine.  One behaviour is one CreateItinerary     *)
(* call against a places catalog, a routing client and a transactional     *)
(* store (Spec), optionally with a concurrent GetItinerary (SpecReader)   *)
(* or a second optimizeRoute run (SpecTwice).  Times are minutes since     *)
(* midnight, distances are whole km.  SpecPoint is the types.Point         *)
(* validation and decoding functions applied to bounded inputs.            *)
(***************************************************************************)
EXTENDS Integers, Sequences, FiniteSets, TLC

VARIABLES
    pc,               \* position of the CreateItinerary call
    req,              \* the CreateItineraryRequest of the call
    places,           \* the rows the places query returned (set of ids)
    matrix,           \* the DistanceMatrix the routing client returned
    currentLoc,       \* optimizeRoute: currentLoc
    currentTime,      \* optimizeRoute: currentTime
    unvisited,        \* optimizeRoute: the keys of the unvisited map
    visits,           \* optimizeRoute: visits
    totalDistance,    \* optimizeRoute: totalDistance
    totalTravelTime,  \* optimizeRoute: totalTravelTime
    sequenceOrder,    \* optimizeRoute: sequenceOrder
    lastPick,         \* the last findNearest call: candidates, pick, arrival, departure
    route,            \* what optimizeRoute returned (NoRoute before, and on error)
    err,              \* the error CreateItinerary returns (NoError while running)
    tx,               \* the open ent transaction: its uncommitted rows
    db,               \* the committed itinerary and visit rows
    response,         \* what CreateItinerary returns on success
    calls,            \* how often the call reached each collaborator
    firstRun,         \* the route of an earlier optimizeRoute run on the same input
    observed,         \* what a concurrent GetItinerary read from the store
    pointPc,          \* types.Point: position of the caller
    receiver,         \* types.Point: the Point a method is called on
    pointCall,        \* types.Point: the last call, its input and what it returned
    migrate,          \* cmd/migrate: the run of main and the database it talks to
    router,           \* api.NewRouter: the routes registered and the request served
    placeSvc,         \* placeService: the repository and the last service call
    category          \* dto: a category and the last request applied to it

vars == <<pc, req, places, matrix, currentLoc, currentTime, unvisited,
          visits, totalDistance, totalTravelTime, sequenceOrder, lastPick, route,
          err, tx, db, response, calls, firstRun, observed,
          pointPc, receiver, pointCall, migrate, router, placeSvc, category>>

pointVars == <<pointPc, receiver, pointCall>>

serviceVars == <<migrate, router, placeSvc, category>>

itineraryVars == <<pc, req, places, matrix, currentLoc, currentTime, unvisited,
                   visits, totalDistance, totalTravelTime, sequenceOrder,
                   lastPick, route, err, tx, db, response, calls, firstRun,
                   observed>>

optVars == <<currentLoc, currentTime, unvisited, visits, totalDistance,
             totalTravelTime, sequenceOrder, lastPick>>

----------------------------------------------------------------------------
(* Bounds of the model *)

MaxStart == 2         \* the visitor starts at km 0..MaxStart
MaxSlow == 1          \* a leg takes 1..1+MaxSlow travel units
TravelUnit == 30      \* minutes of one travel unit
MaxSel == 3           \* longest selected_places list of a request
WindowStart == 600    \* start_time of every request (10:00)
WindowShort == 60     \* a window shorter than two hours
WindowLong == 300     \* a window longer than two hours
DwellLong == 60       \* a supplied visit_duration
DwellTooLong == 121   \* a supplied visit_duration above the maximum
Beyond == 1           \* coordinates reach this many ticks outside their range

(* Program constants *)

MinPlaces == 1        \* validate:"min=1"
MaxPlaces == 5        \* validate:"max=5"
MinVisitDuration == 15
MaxVisitDuration == 120
DefaultVisitDuration == 30        \* visit_duration, Default column
DefaultTransportMode == "driving" \* transport_mode, Default column
TransportModes == {"walking", "driving", "taxi"}
TwoHours == 120       \* "end_time is at least 2 hours after start_time"
MaxFloat64 == 1000000 \* math.MaxFloat64: above every distance of the model

(* The places table: place id -> position on the road (km).  Places 1, 2  *)
(* and 3 are A(0,1), B(0,5) and C(0,2) of the greedy test.                *)
Catalog == (1 :> 1) @@ (2 :> 5) @@ (3 :> 2) @@ (4 :> 3)

PlaceIds == DOMAIN Catalog
UnknownIds == {9}             \* a well-formed id with no row
StartLoc == 0                 \* the key of req.CurrentLocation in the matrix

NoPlace == 0                  \* findNearest's nil *ent.Place
NoMatrix == [state |-> "none"]
NoRoute == [state |-> "nil"]
NoError == [kind |-> "nil"]
NoPick == [state |-> "none"]
NoTx == [state |-> "none", itinerary |-> <<>>, visits |-> <<>>]
NoResponse == [state |-> "nil"]
NoObservation == [state |-> "none"]
NoCall == [op |-> "none"]
ZeroPoint == [Longitude |-> 0, Latitude |-> 0]   \* var p Point
NoDatabase == [state |-> "unknown"]
MigrateStart ==
    [pc |-> "flags", dryRun |-> FALSE, host |-> "", dsnHost |-> "",
     database |-> NoDatabase, atConnect |-> NoDatabase,
     executed |-> <<>>, stdout |-> <<>>]

----------------------------------------------------------------------------
(* Helpers *)

Range(s) == {s[i] : i \in 1..Len(s)}

SeqsUpTo(S, n) == UNION {[1..k -> S] : k \in 0..n}

Perms(S) == {s \in [1..Cardinality(S) -> S] : Range(s) = S}

Abs(x) == IF x < 0 THEN -x ELSE x

----------------------------------------------------------------------------
(* The request *)

(* A selected_places list of MaxPlaces + 1 entries. *)
OverlongSelection ==
    [i \in 1..(MaxPlaces + 1) |->
        IF i <= Cardinality(PlaceIds) THEN i
        ELSE IF i = Cardinality(PlaceIds) + 1 THEN CHOOSE u \in UnknownIds : TRUE
        ELSE i - Cardinality(PlaceIds) - 1]

Requests ==
    [CurrentLocation : 0..MaxStart,
     SelectedPlaces  : SeqsUpTo(PlaceIds \cup UnknownIds, MaxSel)
                          \cup {OverlongSelection},
     StartTime       : {WindowStart},
     EndTime         : {WindowStart + WindowShort, WindowStart + TwoHours,
                        WindowStart + WindowLong},
     VisitDuration   : {0, DwellLong, DwellTooLong},
     TransportMode   : {""}]

(* validator.Struct(req): the struct tags of the request fields modelled   *)
(* here.  omitempty skips a zero visit_duration; no tag compares end_time  *)
(* with start_time or asks for distinct place ids.                         *)
ValidSelectedPlaces(sel) == Len(sel) >= MinPlaces /\ Len(sel) <= MaxPlaces

ValidVisitDuration(d) ==
    d = 0 \/ (d >= MinVisitDuration /\ d <= MaxVisitDuration)

(* omitempty,oneof=walking driving taxi *)
ValidTransportMode(mode) == mode = "" \/ mode \in TransportModes

validatorStruct(r) ==
    /\ ValidSelectedPlaces(r.SelectedPlaces)
    /\ ValidVisitDuration(r.VisitDuration)
    /\ ValidTransportMode(r.TransportMode)

(* s.parseTimes: the request's times as instants of the trip date. *)
parseTimes(r) == <<r.StartTime, r.EndTime>>

----------------------------------------------------------------------------
(* The distance matrix *)

(* Position of a matrix key: the start location or a catalog place. *)
PosOf(cat, start, k) == IF k = StartLoc THEN start ELSE cat[k]

(* What a routing client can return for start and the places: the road    *)
(* distance of every leg and, independently of the distance, a travel      *)
(* time of 1..1+MaxSlow units that depends on the traffic at the leg's     *)
(* destination.  Ties in distance and legs of equal time both occur.       *)
Matrices(cat, start, ps, mode) ==
    {[state    |-> "ok",
      mode     |-> mode,
      distance |-> [from \in {StartLoc} \cup ps |->
                       [to \in ps |-> Abs(PosOf(cat, start, from) - cat[to])]],
      time     |-> [from \in {StartLoc} \cup ps |->
                       [to \in ps |-> IF from = to THEN 0
                                      ELSE TravelUnit * (1 + slow[to])]]] :
        slow \in [ps -> 0..MaxSlow]}

GetDistance(m, from, to) == m.distance[from][to]

GetTime(m, from, to) == m.time[from][to]

----------------------------------------------------------------------------
(* findNearest *)

(* dist < minDist *)
closer(dist, minDist) == dist < minDist

(* The range loop over the map, in the iteration order `order`. *)
RECURSIVE findNearestFrom(_, _, _, _, _, _)
findNearestFrom(from, order, m, i, nearest, minDist) ==
    IF i > Len(order) THEN <<nearest, minDist>>
    ELSE LET place == order[i]
             dist  == GetDistance(m, from, place)
         IN  IF closer(dist, minDist)
             THEN findNearestFrom(from, order, m, i + 1, place, dist)
             ELSE findNearestFrom(from, order, m, i + 1, nearest, minDist)

(* A findNearest that takes the first entry the range yields. *)
findNearestFirstYielded(from, order, m) ==
    <<order[1], GetDistance(m, from, order[1])>>

findNearest(from, order, m) ==
    findNearestFrom(from, order, m, 1, NoPlace, MaxFloat64)

----------------------------------------------------------------------------
(* Errors *)

ErrValidation == [kind |-> "ValidationError"]

ErrPlaceNotFound == [kind |-> "ErrPlaceNotFound"]

ErrStore(op) == [kind |-> "store", op |-> op]

ProviderErrors == {[kind |-> "ProviderUnavailable"], [kind |-> "context canceled"]}

(* fmt.Errorf("failed to get distance matrix: %w", err) *)
ErrMatrix(cause) ==
    [kind |-> "wrapped", msg |-> "failed to get distance matrix", cause |-> cause]

(* fmt.Errorf("cannot fit all places: time window exceeded") *)
ErrTimeWindow ==
    [kind |-> "errorString", msg |-> "cannot fit all places: time window exceeded"]

----------------------------------------------------------------------------
(* The transaction *)

(* A header created with the client instead of the transaction. *)
dbCreateItinerary(t, d, row) ==
    <<[t EXCEPT !.itinerary = <<row>>],
      [d EXCEPT !.itineraries = @ \cup {row}]>>

(* tx.Itinerary.Create()...Save(ctx): the row is written inside tx. *)
txCreateItinerary(t, d, row) == <<[t EXCEPT !.itinerary = <<row>>], d>>

(* A visit created with the client instead of the transaction. *)
dbCreateVisit(t, d, row) ==
    <<[t EXCEPT !.visits = Append(@, row)], [d EXCEPT !.visits = @ \cup {row}]>>

(* tx.Visit.Create()...Save(ctx): the row is written inside tx. *)
txCreateVisit(t, d, row) == <<[t EXCEPT !.visits = Append(@, row)], d>>

(* tx.Rollback(): the uncommitted rows are dropped. *)
txRollback(t) == [state |-> "rolledback", itinerary |-> <<>>, visits |-> <<>>]

(* tx.Commit() succeeding: the rows of tx become visible together. *)
txCommit(t, d) ==
    [itineraries |-> d.itineraries \cup Range(t.itinerary),
     visits      |-> d.visits \cup Range(t.visits)]

ItineraryId == 1

ItineraryRow(r, rt) ==
    [id |-> ItineraryId, start_time |-> parseTimes(r)[1],
     end_time |-> parseTimes(r)[2],
     visit_duration_minutes |-> r.VisitDuration,
     transport_mode |-> r.TransportMode,
     total_distance_km |-> rt.TotalDistanceKm,
     total_travel_time_minutes |-> rt.TotalTravelTime]

VisitRow(id, v) ==
    [itinerary_id |-> id, place_id |-> v.Place,
     sequence_order |-> v.SequenceOrder,
     arrival_time |-> v.ArrivalTime, departure_time |-> v.DepartureTime,
     visit_duration_minutes |-> v.VisitDuration,
     travel_time_from_previous |-> v.TravelTimeFromPrevious,
     distance_from_previous_km |-> v.DistanceFromPrevious]

----------------------------------------------------------------------------
Init ==
    /\ pc = "idle"
    /\ req = [state |-> "none"]
    /\ places = {}
    /\ matrix = NoMatrix
    /\ currentLoc = StartLoc
    /\ currentTime = 0
    /\ unvisited = {}
    /\ visits = <<>>
    /\ totalDistance = 0
    /\ totalTravelTime = 0
    /\ sequenceOrder = 1
    /\ lastPick = NoPick
    /\ route = NoRoute
    /\ err = NoError
    /\ tx = NoTx
    /\ db = [itineraries |-> {}, visits |-> {}]
    /\ response = NoResponse
    /\ calls = [catalog |-> 0, matrix |-> 0, persist |-> 0, writes |-> 0]
    /\ firstRun = NoRoute
    /\ observed = NoObservation
    /\ pointPc = "idle"
    /\ receiver = ZeroPoint
    /\ pointCall = NoCall
    /\ migrate = MigrateStart
    /\ router = [pc |-> "new"]
    /\ placeSvc = [pc |-> "new"]
    /\ category = [pc |-> "new"]

(* return nil, e *)
Fail(e) ==
    /\ pc' = "failed"
    /\ err' = e
    /\ response' = NoResponse

(* CreateItinerary, step 1: the request arrives and is validated. *)
Validate ==
    /\ pc = "idle"
    /\ \E r \in Requests :
         /\ req' = r
         /\ IF validatorStruct(r)
            THEN pc' = "fetch" /\ UNCHANGED <<err, response>>
            ELSE Fail(ErrValidation)
    /\ UNCHANGED <<places, matrix, optVars, route, tx, db, calls, firstRun, observed, pointVars,
                   serviceVars>>

(* A check that only notices when no place at all was found. *)
placesMissingAll(rows, sel) == rows = {}

(* len(places) != len(req.SelectedPlaces) *)
placesMissing(rows, sel) == Cardinality(rows) # Len(sel)

(* Step 2: place.IDIn(req.SelectedPlaces...) and the length comparison. *)
QueryPlaces ==
    /\ pc = "fetch"
    /\ calls' = [calls EXCEPT !.catalog = @ + 1]
    /\ \/ /\ Fail(ErrStore("places"))
          /\ UNCHANGED places
       \/ LET rows == {id \in PlaceIds : id \in Range(req.SelectedPlaces)}
          IN  IF placesMissing(rows, req.SelectedPlaces)
              THEN Fail(ErrPlaceNotFound) /\ UNCHANGED places
              ELSE /\ places' = rows
                   /\ pc' = "matrix"
                   /\ UNCHANGED <<err, response>>
    /\ UNCHANGED <<req, matrix, optVars, route, tx, db, firstRun, observed, pointVars,
                   serviceVars>>

(* A matrix call that is made again after the provider failed. *)
afterProviderErrorRetry == "matrix"

(* if err != nil { return nil, fmt.Errorf(...) }: where the call goes     *)
(* when the provider returned an error.                                    *)
afterProviderError == "failed"

(* A numbering of the visits that starts at zero. *)
firstSequenceOrderZero == 1 - 1

(* sequenceOrder := 1 *)
firstSequenceOrder == 1

(* optimizeRoute, steps 1 and 2: the matrix call, then the initial state. *)
GetDistanceMatrix ==
    /\ pc = "matrix"
    /\ calls' = [calls EXCEPT !.matrix = @ + 1]
    /\ \/ /\ \E e \in ProviderErrors : err' = ErrMatrix(e)
          /\ response' = NoResponse
          /\ pc' = afterProviderError
          /\ UNCHANGED <<matrix, optVars>>
       \/ /\ matrix' \in Matrices(Catalog, req.CurrentLocation, places,
                                req.TransportMode)
          /\ currentLoc' = StartLoc
          /\ currentTime' = parseTimes(req)[1]
          /\ unvisited' = places
          /\ visits' = <<>>
          /\ totalDistance' = 0
          /\ totalTravelTime' = 0
          /\ sequenceOrder' = firstSequenceOrder
          /\ lastPick' = NoPick
          /\ pc' = "loop"
          /\ UNCHANGED <<err, response>>
    /\ UNCHANGED <<req, places, route, tx, db, firstRun, observed, pointVars,
                   serviceVars>>

(* An arrival that forgets the travel time. *)
arriveAtOnce(clock, travelTime) == clock

(* currentTime.Add(time.Duration(travelTime) * time.Minute) *)
arriveAt(clock, travelTime) == clock + travelTime

(* A loop without the feasibility check. *)
exceedsWindowNever(arrivalTime, departureTime, endTime) == FALSE

(* A feasibility check on the arrival instead of the departure. *)
exceedsWindowOnArrival(arrivalTime, departureTime, endTime) ==
    arrivalTime > endTime

(* departureTime.After(endTime) *)
exceedsWindow(arrivalTime, departureTime, endTime) == departureTime > endTime

(* A return of the visits computed so far together with the error. *)
routeOnOverflowPartial(vs) == [state |-> "partial", Visits |-> vs]

(* return nil, fmt.Errorf(...): the route returned when the window is     *)
(* exceeded with the visits vs already computed.                           *)
routeOnOverflow(vs) == NoRoute

(* A total that keeps only the last leg. *)
addToLastOnly(total, amount) == amount

(* totalDistance += minDist; totalTravelTime += travelTime *)
addTo(total, amount) == total + amount

(* A loop that forgets every place still to visit. *)
removeVisitedAll(remaining, place) == {}

(* delete(unvisited, nearestPlace.ID) *)
removeVisited(remaining, place) == remaining \ {place}

(* A counter that is never incremented. *)
nextSequenceOrderSame(n) == n

(* sequenceOrder++ *)
nextSequenceOrder(n) == n + 1

(* One iteration of the greedy loop; `order` is the order in which this    *)
(* range over the unvisited map yields its entries.                        *)
LoopIteration ==
    /\ pc = "loop"
    /\ unvisited # {}
    /\ \E order \in Perms(unvisited) :
         LET found         == findNearest(currentLoc, order, matrix)
             nearestPlace  == found[1]
             minDist       == found[2]
             travelTime    == GetTime(matrix, currentLoc, nearestPlace)
             arrivalTime   == arriveAt(currentTime, travelTime)
             departureTime == arrivalTime + req.VisitDuration
             endTime       == parseTimes(req)[2]
             visit == [SequenceOrder          |-> sequenceOrder,
                       Place                  |-> nearestPlace,
                       ArrivalTime            |-> arrivalTime,
                       DepartureTime          |-> departureTime,
                       VisitDuration          |-> req.VisitDuration,
                       TravelTimeFromPrevious |-> travelTime,
                       DistanceFromPrevious   |-> minDist]
         IN  /\ lastPick' = [from |-> currentLoc, remaining |-> unvisited,
                             nearest |-> nearestPlace, minDist |-> minDist,
                             clock |-> currentTime, travelTime |-> travelTime,
                             arrival |-> arrivalTime, departure |-> departureTime]
             /\ IF exceedsWindow(arrivalTime, departureTime, endTime)
                THEN /\ Fail(ErrTimeWindow)
                     /\ route' = routeOnOverflow(visits)
                     /\ UNCHANGED <<currentLoc, currentTime, unvisited, visits,
                                    totalDistance, totalTravelTime, sequenceOrder>>
                ELSE /\ visits' = Append(visits, visit)
                     /\ totalDistance' = addTo(totalDistance, minDist)
                     /\ totalTravelTime' = addTo(totalTravelTime, travelTime)
                     /\ currentLoc' = nearestPlace
                     /\ currentTime' = departureTime
                     /\ unvisited' = removeVisited(unvisited, nearestPlace)
                     /\ sequenceOrder' = nextSequenceOrder(sequenceOrder)
                     /\ UNCHANGED <<pc, err, response, route>>
    /\ UNCHANGED <<req, places, matrix, tx, db, calls, firstRun, observed, pointVars,
                   serviceVars>>

(* optimizeRoute, step 4: the loop is over and the route is returned. *)
ReturnRoute ==
    /\ pc = "loop"
    /\ unvisited = {}
    /\ route' = [state |-> "ok",
                 Visits |-> visits,
                 TotalDistanceKm |-> totalDistance,
                 TotalTravelTime |-> totalTravelTime,
                 CompletionTime |-> currentTime,
                 TimeBufferMinutes |-> parseTimes(req)[2] - currentTime,
                 Feasible |-> TRUE]
    /\ pc' = "tx"
    /\ UNCHANGED <<req, places, matrix, optVars, err, tx, db, response,
                   calls, firstRun, observed, pointVars,
                   serviceVars>>

(* Step 5: s.db.Tx(ctx). *)
BeginTx ==
    /\ pc = "tx"
    /\ calls' = [calls EXCEPT !.persist = @ + 1]
    /\ \/ Fail(ErrStore("begin")) /\ UNCHANGED tx
       \/ /\ tx' = [NoTx EXCEPT !.state = "open"]
          /\ pc' = "itinerary"
          /\ UNCHANGED <<err, response>>
    /\ UNCHANGED <<req, places, matrix, optVars, route, db, firstRun, observed, pointVars,
                   serviceVars>>

(* tx.Itinerary.Create()...Save(ctx), with tx.Rollback() on error. *)
SaveItinerary ==
    /\ pc = "itinerary"
    /\ calls' = [calls EXCEPT !.writes = @ + 1]
    /\ \/ /\ Fail(ErrStore("itinerary"))
          /\ tx' = txRollback(tx)
          /\ UNCHANGED db
       \/ LET w == txCreateItinerary(tx, db, ItineraryRow(req, route))
          IN  /\ tx' = w[1]
              /\ db' = w[2]
              /\ pc' = "visits"
              /\ UNCHANGED <<err, response>>
    /\ UNCHANGED <<req, places, matrix, optVars, route, firstRun, observed, pointVars,
                   serviceVars>>

(* One pass of the "Save visits" loop, with tx.Rollback() on error. *)
SaveVisit ==
    /\ pc = "visits"
    /\ Len(tx.visits) < Len(route.Visits)
    /\ calls' = [calls EXCEPT !.writes = @ + 1]
    /\ \/ /\ Fail(ErrStore("visit"))
          /\ tx' = txRollback(tx)
          /\ UNCHANGED db
       \/ LET visit == route.Visits[Len(tx.visits) + 1]
              w == txCreateVisit(tx, db, VisitRow(tx.itinerary[1].id, visit))
          IN  /\ tx' = w[1]
              /\ db' = w[2]
              /\ UNCHANGED <<pc, err, response>>
    /\ UNCHANGED <<req, places, matrix, optVars, route, firstRun, observed, pointVars,
                   serviceVars>>

(* tx.Commit(), then step 6: buildResponse. *)
Commit ==
    /\ pc = "visits"
    /\ Len(tx.visits) = Len(route.Visits)
    /\ \/ /\ Fail(ErrStore("commit"))
          /\ tx' = [state |-> "aborted", itinerary |-> <<>>, visits |-> <<>>]
          /\ UNCHANGED db
       \/ /\ db' = txCommit(tx, db)
          /\ tx' = [state |-> "committed", itinerary |-> <<>>, visits |-> <<>>]
          /\ response' = [state |-> "ok", itinerary |-> tx.itinerary[1],
                          route |-> route]
          /\ pc' = "done"
          /\ UNCHANGED err
    /\ UNCHANGED <<req, places, matrix, optVars, route, calls, firstRun, observed, pointVars,
                   serviceVars>>

(* optimizeRoute called once more with the arguments of the first call,  *)
(* the routing client returning the same matrix.                           *)
RunAgain ==
    /\ firstRun = NoRoute
    /\ \/ pc = "tx"
       \/ pc = "failed" /\ err = ErrTimeWindow
    /\ firstRun' = [state |-> "returned", route |-> route, err |-> err]
    /\ currentLoc' = StartLoc
    /\ currentTime' = parseTimes(req)[1]
    /\ unvisited' = places
    /\ visits' = <<>>
    /\ totalDistance' = 0
    /\ totalTravelTime' = 0
    /\ sequenceOrder' = firstSequenceOrder
    /\ lastPick' = NoPick
    /\ route' = NoRoute
    /\ err' = NoError
    /\ pc' = "loop"
    /\ UNCHANGED <<req, places, matrix, tx, db, response, calls, observed,
                   pointVars,
                   serviceVars>>

Next ==
    \/ Validate
    \/ QueryPlaces
    \/ GetDistanceMatrix
    \/ LoopIteration
    \/ ReturnRoute
    \/ BeginTx
    \/ SaveItinerary
    \/ SaveVisit
    \/ Commit

Spec == Init /\ [][Next]_vars

(* ItineraryService.GetItinerary running in another request, at any point *)
(* of the CreateItinerary call: it reads the committed rows of the        *)
(* itinerary.  `during` and `pending` record the state of the writer's    *)
(* transaction at the moment of the read.                                  *)
GetItinerary ==
    /\ observed' =
          [state       |-> "read",
           itineraries |-> {row \in db.itineraries : row.id = ItineraryId},
           visits      |-> {row \in db.visits : row.itinerary_id = ItineraryId},
           during      |-> tx.state,
           pending     |-> Len(tx.itinerary) + Len(tx.visits)]
    /\ UNCHANGED <<pc, req, places, matrix, optVars, route, err, tx, db,
                   response, calls, firstRun, pointVars,
                   serviceVars>>

NextReader ==
    \/ Next
    \/ GetItinerary

SpecReader == Init /\ [][NextReader]_vars

NextTwice ==
    \/ Next
    \/ RunAgain

SpecTwice == Init /\ [][NextTwice]_vars

(* optimizeRoute is sequential code: once the loop is entered its next    *)
(* iteration, and after the last one the return, are eventually executed. *)
SpecLoop == Spec /\ WF_vars(LoopIteration) /\ WF_vars(ReturnRoute)

----------------------------------------------------------------------------
(* types.Point.  A float64 coordinate is a whole number of ticks of 1e-7  *)
(* degree, one decimal more than "%f" prints.                              *)

Degree == 10000000

MaxLatitude == 90 * Degree
MaxLongitude == 180 * Degree

(* Coordinates of the calls: both sides of every range limit, zero, a     *)
(* position in Nashik with six decimals and positions with seven.          *)
Latitudes ==
    {-MaxLatitude - k : k \in 0..Beyond} \cup {MaxLatitude + k : k \in 0..Beyond}
        \cup {0, 19 * Degree + 9975000, 19 * Degree + 9975004}

Longitudes ==
    {-MaxLongitude - k : k \in 0..Beyond} \cup {MaxLongitude + k : k \in 0..Beyond}
        \cup {0, 73 * Degree + 7898000, -(73 * Degree + 7898006)}

Point(lng, lat) == [Longitude |-> lng, Latitude |-> lat]

Points == {Point(lng, lat) : lng \in Longitudes, lat \in Latitudes}

(* An IsValid whose limits are themselves out of range. *)
IsValidOpen(p) ==
    IF p.Latitude <= -MaxLatitude \/ p.Latitude >= MaxLatitude THEN FALSE
    ELSE IF p.Longitude <= -MaxLongitude \/ p.Longitude >= MaxLongitude THEN FALSE
    ELSE TRUE

IsValid(p) ==
    IF p.Latitude < -MaxLatitude \/ p.Latitude > MaxLatitude THEN FALSE
    ELSE IF p.Longitude < -MaxLongitude \/ p.Longitude > MaxLongitude THEN FALSE
    ELSE TRUE

(* What a decoder returns: a Point and nil, or nil and an error. *)
Decoded(p) == [ok |-> TRUE, point |-> p]

DecodeError(msg) == [ok |-> FALSE, err |-> msg]

(* GeoJSONPoint values handed to PointFromGeoJSON. *)
CoordinateLists ==
    {<<>>} \cup {<<lng>> : lng \in {0}}
        \cup {<<p.Longitude, p.Latitude>> : p \in Points}
        \cup {<<0, 0, 0>>}

GeoJSONPoints == [Type : {"Point", "Polygon", ""}, Coordinates : CoordinateLists]

PointFromGeoJSON(gj) ==
    IF gj.Type # "Point" THEN DecodeError("invalid GeoJSON type")
    ELSE IF Len(gj.Coordinates) # 2 THEN DecodeError("invalid coordinates")
    ELSE LET point == Point(gj.Coordinates[1], gj.Coordinates[2])
         IN  IF ~IsValid(point) THEN DecodeError("invalid coordinates")
             ELSE Decoded(point)

(* JSON documents handed to UnmarshalJSON.  A member of the object is     *)
(* absent, present with a value of the JSON type the Go field takes, or   *)
(* present with a value of another JSON type.                              *)
Absent == [tag |-> "absent"]
Mistyped == [tag |-> "mistyped"]
Member(v) == [tag |-> "value", v |-> v]

NotJSON == [wellFormed |-> FALSE, type |-> Absent, coordinates |-> Absent,
            longitude |-> Absent, latitude |-> Absent]

(* Documents in GeoJSON form, in the simple form, and in both. *)
Documents ==
    [wellFormed : {TRUE},
     type : {Absent, Mistyped, Member("Point"), Member("Polygon")},
     coordinates : {Absent, Mistyped} \cup {Member(c) : c \in CoordinateLists},
     longitude : {Absent}, latitude : {Absent}]
    \cup
    [wellFormed : {TRUE},
     type : {Absent, Member("Polygon")},
     coordinates : {Absent},
     longitude : {Absent, Mistyped} \cup {Member(lng) : lng \in Longitudes},
     latitude : {Absent, Mistyped} \cup {Member(lat) : lat \in Latitudes}]
    \cup
    [wellFormed : {TRUE},
     type : {Member("Point")},
     coordinates : {Mistyped, Member(<<0, 0>>), Member(<<0, MaxLatitude + Beyond>>)},
     longitude : {Member(0), Member(MaxLongitude + Beyond)},
     latitude : {Member(0), Member(19 * Degree + 9975000)}]
    \cup {NotJSON}

(* json.Unmarshal(data, &geoJSON) *)
jsonUnmarshalGeoJSON(doc) ==
    IF ~doc.wellFormed \/ doc.type = Mistyped \/ doc.coordinates = Mistyped
    THEN [err |-> TRUE]
    ELSE [err |-> FALSE,
          Type |-> IF doc.type.tag = "value" THEN doc.type.v ELSE "",
          Coordinates |-> IF doc.coordinates.tag = "value"
                          THEN doc.coordinates.v ELSE <<>>]

(* json.Unmarshal(data, &a) *)
jsonUnmarshalAlias(doc) ==
    IF ~doc.wellFormed \/ doc.longitude = Mistyped \/ doc.latitude = Mistyped
    THEN [err |-> TRUE]
    ELSE [err |-> FALSE,
          Longitude |-> IF doc.longitude.tag = "value" THEN doc.longitude.v ELSE 0,
          Latitude |-> IF doc.latitude.tag = "value" THEN doc.latitude.v ELSE 0]

(* The branch of UnmarshalJSON that decodes doc. *)
TakesGeoJSONBranch(doc) ==
    LET g == jsonUnmarshalGeoJSON(doc) IN ~g.err /\ g.Type = "Point"

(* p.UnmarshalJSON(data): the receiver after the call and what the call   *)
(* returned.                                                                *)
UnmarshalJSON(p, doc) ==
    IF TakesGeoJSONBranch(doc)
    THEN LET parsed == PointFromGeoJSON([Type |-> jsonUnmarshalGeoJSON(doc).Type,
                           Coordinates |-> jsonUnmarshalGeoJSON(doc).Coordinates])
         IN  IF ~parsed.ok THEN <<p, parsed>>
             ELSE <<parsed.point, Decoded(parsed.point)>>
    ELSE LET a == jsonUnmarshalAlias(doc)
         IN  IF a.err THEN <<p, DecodeError("json")>>
             ELSE LET q == Point(a.Longitude, a.Latitude)
                  IN  IF ~IsValid(q) THEN <<q, DecodeError("invalid coordinates")>>
                      ELSE <<q, Decoded(q)>>

(* WKT texts handed to PointFromWKT: what stands before the numbers, the  *)
(* numbers, whether ")" follows them and whether text follows that.        *)
NumberLists ==
    {<<>>, <<0>>, <<0, 0, 0>>} \cup {<<p.Longitude, p.Latitude>> : p \in Points}

WKTs == [head : {"POINT(", "POINT (", "point("}, numbers : NumberLists,
         closed : BOOLEAN, trailing : BOOLEAN]

(* fmt.Sscanf(wkt, "POINT(%f %f)", &lng, &lat) *)
Sscanf(wkt) ==
    IF wkt.head # "POINT(" \/ wkt.numbers = <<>>
    THEN [count |-> 0, err |-> TRUE, lng |-> 0, lat |-> 0]
    ELSE IF Len(wkt.numbers) = 1
    THEN [count |-> 1, err |-> TRUE, lng |-> wkt.numbers[1], lat |-> 0]
    ELSE [count |-> 2, err |-> ~(Len(wkt.numbers) = 2 /\ wkt.closed),
          lng |-> wkt.numbers[1], lat |-> wkt.numbers[2]]

(* A PointFromWKT that returns whatever it scanned. *)
PointFromWKTUnchecked(wkt) ==
    LET scanned == Sscanf(wkt)
    IN  IF scanned.err \/ scanned.count # 2 THEN DecodeError("invalid WKT format")
        ELSE Decoded(Point(scanned.lng, scanned.lat))

PointFromWKT(wkt) ==
    LET scanned == Sscanf(wkt)
    IN  IF scanned.err \/ scanned.count # 2 THEN DecodeError("invalid WKT format")
        ELSE LET point == Point(scanned.lng, scanned.lat)
             IN  IF ~IsValid(point) THEN DecodeError("invalid coordinates in WKT")
                 ELSE Decoded(point)

(* The text of a number: sign, whole part and `digits` fractional digits. *)
Pow10(n) == IF n = 0 THEN 1 ELSE IF n = 1 THEN 10 ELSE IF n = 2 THEN 100
            ELSE IF n = 3 THEN 1000 ELSE IF n = 4 THEN 10000
            ELSE IF n = 5 THEN 100000 ELSE IF n = 6 THEN 1000000 ELSE Degree

TickPlaces == 7       \* decimals of one tick

NumberText(neg, whole, frac, digits) ==
    [neg |-> neg, whole |-> whole, frac |-> frac, digits |-> digits]

(* Fractional digits left when the trailing zeros of f (of 7) are dropped. *)
RECURSIVE SignificantPlaces(_, _)
SignificantPlaces(f, digits) ==
    IF f = 0 THEN 0
    ELSE IF f % 10 # 0 THEN digits
    ELSE SignificantPlaces(f \div 10, digits - 1)

(* A number encoder that keeps six decimals. *)
FormatShortestSixPlaces(v) ==
    NumberText(v < 0, (Abs(v) \div 10) \div Pow10(6), (Abs(v) \div 10) % Pow10(6), 6)

(* encoding/json on a float64: the shortest decimal text that reads back  *)
(* as the same float64.                                                     *)
FormatShortest(v) ==
    LET digits == SignificantPlaces(Abs(v) % Degree, TickPlaces)
    IN  NumberText(v < 0, Abs(v) \div Degree,
                   (Abs(v) % Degree) \div Pow10(TickPlaces - digits), digits)

(* fmt's verb %f: six decimals, rounded. *)
FormatF(v) ==
    LET micro == (Abs(v) + 5) \div 10
    IN  NumberText(v < 0, micro \div Pow10(6), micro % Pow10(6), 6)

(* strconv.ParseFloat / the %f verb of Sscanf: the float64 a text denotes. *)
ParseFloat(text) ==
    LET magnitude == text.whole * Degree
                        + text.frac * Pow10(TickPlaces - text.digits)
    IN  IF text.neg THEN -magnitude ELSE magnitude

(* p.ToGeoJSON() *)
ToGeoJSON(p) == [Type |-> "Point", Coordinates |-> <<p.Longitude, p.Latitude>>]

(* p.MarshalJSON(): json.Marshal(p.ToGeoJSON()), the bytes as the members *)
(* of the object in order, every number as its text.                       *)
MarshalJSON(p) ==
    LET gj == ToGeoJSON(p)
    IN  [type |-> gj.Type,
         coordinates |-> [i \in 1..Len(gj.Coordinates) |->
                             FormatShortest(gj.Coordinates[i])]]

(* The document json.Unmarshal reads from bytes that MarshalJSON wrote. *)
DocumentOf(bytes) ==
    [wellFormed |-> TRUE, type |-> Member(bytes.type),
     coordinates |-> Member([i \in 1..Len(bytes.coordinates) |->
                                ParseFloat(bytes.coordinates[i])]),
     longitude |-> Absent, latitude |-> Absent]

(* p.ToWKT(): fmt.Sprintf("POINT(%f %f)", p.Longitude, p.Latitude) *)
ToWKT(p) ==
    [head |-> "POINT(", numbers |-> <<FormatF(p.Longitude), FormatF(p.Latitude)>>,
     closed |-> TRUE, trailing |-> FALSE]

(* The WKT value Sscanf scans from a text that ToWKT wrote. *)
WKTOf(text) ==
    [head |-> text.head,
     numbers |-> [i \in 1..Len(text.numbers) |-> ParseFloat(text.numbers[i])],
     closed |-> text.closed, trailing |-> text.trailing]

(* p := types.Point{Longitude: lng, Latitude: lat} *)
MakePoint ==
    /\ pointPc = "idle"
    /\ receiver' \in Points
    /\ pointPc' = "made"
    /\ UNCHANGED <<pointCall, itineraryVars, serviceVars>>

(* p.IsValid() *)
CallIsValid ==
    /\ pointPc = "made"
    /\ pointCall' = [op |-> "IsValid", input |-> receiver,
                     result |-> IsValid(receiver)]
    /\ pointPc' = "returned"
    /\ UNCHANGED <<receiver, itineraryVars, serviceVars>>

(* types.PointFromGeoJSON(gj) *)
CallPointFromGeoJSON ==
    /\ pointPc = "idle"
    /\ \E gj \in GeoJSONPoints :
         pointCall' = [op |-> "PointFromGeoJSON", input |-> gj,
                       result |-> PointFromGeoJSON(gj)]
    /\ pointPc' = "returned"
    /\ UNCHANGED <<receiver, itineraryVars, serviceVars>>

(* json.Unmarshal(data, &p) with p a zero or an earlier Point *)
CallUnmarshalJSON ==
    /\ pointPc \in {"idle", "made"}
    /\ \E doc \in Documents :
         LET out == UnmarshalJSON(receiver, doc)
         IN  /\ receiver' = out[1]
             /\ pointCall' = [op |-> "UnmarshalJSON", input |-> doc,
                              before |-> receiver, result |-> out[2]]
             /\ pointPc' = IF out[2].ok THEN "decoded" ELSE "returned"
    /\ UNCHANGED <<itineraryVars, serviceVars>>

(* types.PointFromWKT(wkt) *)
CallPointFromWKT ==
    /\ pointPc = "idle"
    /\ \E wkt \in WKTs :
         pointCall' = [op |-> "PointFromWKT", input |-> wkt,
                       result |-> PointFromWKT(wkt)]
    /\ pointPc' = "returned"
    /\ UNCHANGED <<receiver, itineraryVars, serviceVars>>

(* p.MarshalJSON() on a literal Point, on a decoded Point, and on the     *)
(* Point decoded from bytes that MarshalJSON wrote (`first` keeps the     *)
(* Point and the bytes of the first encoding).                             *)
CallMarshalJSON ==
    /\ pointPc \in {"made", "decoded", "redecoded"}
    /\ pointCall' = [op |-> "MarshalJSON", input |-> receiver,
                     result |-> MarshalJSON(receiver),
                     source |-> pointCall.op,
                     first |-> IF pointPc = "redecoded" THEN pointCall.first
                               ELSE [state |-> "none"]]
    /\ pointPc' = IF pointPc = "redecoded" THEN "returned" ELSE "encoded"
    /\ UNCHANGED <<receiver, itineraryVars, serviceVars>>

(* var q Point; json.Unmarshal(bytes, &q) on the bytes MarshalJSON wrote *)
CallUnmarshalEncoded ==
    /\ pointPc = "encoded"
    /\ LET doc == DocumentOf(pointCall.result)
           out == UnmarshalJSON(ZeroPoint, doc)
       IN  /\ receiver' = out[1]
           /\ pointCall' = [op |-> "UnmarshalJSON", input |-> doc,
                            before |-> ZeroPoint, result |-> out[2],
                            first |-> [state |-> "encoded",
                                       point |-> pointCall.input,
                                       bytes |-> pointCall.result]]
           /\ pointPc' = IF out[2].ok THEN "redecoded" ELSE "returned"
    /\ UNCHANGED <<itineraryVars, serviceVars>>

(* p.ToWKT() *)
CallToWKT ==
    /\ pointPc = "made"
    /\ pointCall' = [op |-> "ToWKT", input |-> receiver, result |-> ToWKT(receiver)]
    /\ pointPc' = "written"
    /\ UNCHANGED <<receiver, itineraryVars, serviceVars>>

(* types.PointFromWKT(p.ToWKT()) *)
CallPointFromWKTWritten ==
    /\ pointPc = "written"
    /\ LET wkt == WKTOf(pointCall.result)
       IN  pointCall' = [op |-> "PointFromWKT", input |-> wkt,
                         result |-> PointFromWKT(wkt),
                         first |-> [point |-> pointCall.input,
                                    text |-> pointCall.result]]
    /\ pointPc' = "returned"
    /\ UNCHANGED <<receiver, itineraryVars, serviceVars>>

NextPoint ==
    \/ MakePoint
    \/ CallIsValid
    \/ CallPointFromGeoJSON
    \/ CallUnmarshalJSON
    \/ CallPointFromWKT
    \/ CallMarshalJSON
    \/ CallUnmarshalEncoded
    \/ CallToWKT
    \/ CallPointFromWKTWritten

SpecPoint == Init /\ [][NextPoint]_vars

----------------------------------------------------------------------------
(* cmd/migrate: main, one action per statement that can fail or that      *)
(* touches the database.                                                    *)

Hosts == {"db.internal", "ep-db-pooler.internal"}

(* strings.Contains(cfg.Postgres.Host, "pooler") *)
IsPoolerHost(host) == host = "ep-db-pooler.internal"

(* strings.Replace(cfg.Postgres.Host, "-pooler", "", 1) *)
DirectHost(host) == IF host = "ep-db-pooler.internal" THEN "ep-db.internal" ELSE host

(* The databases main can find behind the DSN. *)
Databases == [state : {"up"}, extensions : SUBSET {"postgis"}, schema : BOOLEAN]

CreateExtension == "CREATE EXTENSION IF NOT EXISTS postgis"
SchemaDDL == "CREATE TABLE ..."


(* log.Fatalf / logger.Fatalw: the process exits. *)
MigrateFatal(what) == migrate' = [migrate EXCEPT !.pc = "fatal: " \o what]

(* dryRun := flag.Bool("dry-run", false, ...); flag.Parse() *)
MigrateParseFlags ==
    /\ migrate.pc = "flags"
    /\ \E flag \in BOOLEAN : migrate' = [migrate EXCEPT !.pc = "config", !.dryRun = flag]
    /\ UNCHANGED <<itineraryVars, pointVars, router, placeSvc, category>>

(* config.NewConfig() and logger.NewLogger(cfg) *)
MigrateLoadConfig ==
    /\ migrate.pc = "config"
    /\ \/ MigrateFatal("config")
       \/ MigrateFatal("logger")
       \/ \E host \in Hosts : migrate' = [migrate EXCEPT !.pc = "dsn", !.host = host]
    /\ UNCHANGED <<itineraryVars, pointVars, router, placeSvc, category>>

(* buildMigrationDSN, and buildMigrationDSNFromHost for a pooler host *)
MigrateBuildDSN ==
    /\ migrate.pc = "dsn"
    /\ migrate' = [migrate EXCEPT !.pc = "connect",
                      !.dsnHost = IF IsPoolerHost(migrate.host)
                                  THEN DirectHost(migrate.host) ELSE migrate.host]
    /\ UNCHANGED <<itineraryVars, pointVars, router, placeSvc, category>>

(* sql.Open and db.Ping: from here on main talks to a database. *)
MigrateConnect ==
    /\ migrate.pc = "connect"
    /\ \/ MigrateFatal("connect")
       \/ MigrateFatal("ping")
       \/ \E d \in Databases :
            migrate' = [migrate EXCEPT !.pc = "postgis", !.database = d,
                                       !.atConnect = d]
    /\ UNCHANGED <<itineraryVars, pointVars, router, placeSvc, category>>

(* db.ExecContext(ctx, "CREATE EXTENSION IF NOT EXISTS postgis") *)
MigrateEnablePostGIS ==
    /\ migrate.pc = "postgis"
    /\ \/ MigrateFatal("postgis")
       \/ migrate' = [migrate EXCEPT
                         !.pc = "ent",
                         !.database.extensions = @ \cup {"postgis"},
                         !.executed = Append(@, CreateExtension)]
    /\ UNCHANGED <<itineraryVars, pointVars, router, placeSvc, category>>

(* ent.Open("postgres", migrationDSN) *)
MigrateEntOpen ==
    /\ migrate.pc = "ent"
    /\ \/ MigrateFatal("ent")
       \/ migrate' = [migrate EXCEPT !.pc = "schema"]
    /\ UNCHANGED <<itineraryVars, pointVars, router, placeSvc, category>>

(* if *dryRun: client.Schema.WriteTo(ctx, os.Stdout) *)
MigrateWriteTo ==
    /\ migrate.pc = "schema"
    /\ migrate.dryRun
    /\ \/ MigrateFatal("write")
       \/ migrate' = [migrate EXCEPT !.pc = "finish",
                                     !.stdout = Append(@, SchemaDDL)]
    /\ UNCHANGED <<itineraryVars, pointVars, router, placeSvc, category>>

(* else: client.Schema.Create(ctx) *)
MigrateSchemaCreate ==
    /\ migrate.pc = "schema"
    /\ ~migrate.dryRun
    /\ \/ MigrateFatal("create")
       \/ migrate' = [migrate EXCEPT !.pc = "finish",
                                     !.database.schema = TRUE,
                                     !.executed = Append(@, SchemaDDL)]
    /\ UNCHANGED <<itineraryVars, pointVars, router, placeSvc, category>>

(* fmt.Println("Migration process completed") *)
MigrateFinish ==
    /\ migrate.pc = "finish"
    /\ migrate' = [migrate EXCEPT !.pc = "exit",
                                  !.stdout = Append(@, "Migration process completed")]
    /\ UNCHANGED <<itineraryVars, pointVars, router, placeSvc, category>>

NextMigrate ==
    \/ MigrateParseFlags
    \/ MigrateLoadConfig
    \/ MigrateBuildDSN
    \/ MigrateConnect
    \/ MigrateEnablePostGIS
    \/ MigrateEntOpen
    \/ MigrateWriteTo
    \/ MigrateSchemaCreate
    \/ MigrateFinish

SpecMigrate == Init /\ [][NextMigrate]_vars

----------------------------------------------------------------------------
(* api.NewRouter: the statements of NewRouter build the route table of    *)
(* the gin engine, then the engine serves a request.  A path is the       *)
(* sequence of its segments.                                                *)

Stmt(op, group, parent, path, method, handler, middleware) ==
    [op |-> op, group |-> group, parent |-> parent, path |-> path,
     method |-> method, handler |-> handler, middleware |-> middleware]

(* A private group that uses no middleware. *)
PrivateMiddlewareNone == <<>>

(* v1Private.Use(middleware.AuthenticateMiddleware(cfg, logger)) *)
PrivateMiddleware == <<"AuthenticateMiddleware">>

NewRouterStatements ==
    << Stmt("use", "router", "", <<>>, "", "",
            <<"CORSMiddleware", "RequestIDMiddleware", "ErrorHandler">>),
       Stmt("route", "router", "", <<"swagger", "*any">>, "GET",
            "swagger", <<>>),
       Stmt("route", "router", "", <<"health">>, "GET",
            "Health.Health", <<>>),
       Stmt("group", "v1Router", "router", <<"v1">>, "", "", <<>>),
       Stmt("group", "v1Auth", "v1Router", <<"auth">>, "", "", <<>>),
       Stmt("use", "v1Auth", "", <<>>, "", "", <<"GuestAuthenticateMiddleware">>),
       Stmt("route", "v1Auth", "", <<"signup">>, "POST",
            "Auth.Signup", <<>>),
       Stmt("group", "v1Categories", "v1Router", <<"categories">>, "", "", <<>>),
       Stmt("route", "v1Categories", "", <<>>, "GET",
            "Category.List", <<>>),
       Stmt("route", "v1Categories", "", <<":id">>, "GET",
            "Category.Get", <<>>),
       Stmt("route", "v1Categories", "", <<"slug", ":slug">>, "GET",
            "Category.GetBySlug", <<>>),
       Stmt("group", "v1Places", "v1Router", <<"places">>, "", "", <<>>),
       Stmt("route", "v1Places", "", <<>>, "GET",
            "Place.List", <<>>),
       Stmt("route", "v1Places", "", <<":id">>, "GET",
            "Place.Get", <<>>),
       Stmt("route", "v1Places", "", <<"slug", ":slug">>, "GET",
            "Place.GetBySlug", <<>>),
       Stmt("route", "v1Places", "", <<":place_id", "images">>, "GET",
            "Place.GetImages", <<>>),
       Stmt("group", "v1Private", "v1Router", <<>>, "", "", <<>>),
       Stmt("use", "v1Private", "", <<>>, "", "", PrivateMiddleware),
       Stmt("route", "v1Private", "", <<"user", "me">>, "GET",
            "User.Me", <<>>),
       Stmt("route", "v1Private", "", <<"user">>, "PUT",
            "User.Update", <<>>),
       Stmt("route", "v1Private", "", <<"categories">>, "POST",
            "Category.Create", <<>>),
       Stmt("route", "v1Private", "", <<"categories", ":id">>, "PUT",
            "Category.Update", <<>>),
       Stmt("route", "v1Private", "", <<"categories", ":id">>, "DELETE",
            "Category.Delete", <<>>),
       Stmt("route", "v1Private", "", <<"places">>, "POST",
            "Place.Create", <<>>),
       Stmt("route", "v1Private", "", <<"places", ":id">>, "PUT",
            "Place.Update", <<>>),
       Stmt("route", "v1Private", "", <<"places", ":id">>, "DELETE",
            "Place.Delete", <<>>),
       Stmt("route", "v1Private", "", <<"places", ":place_id", "images">>, "POST",
            "Place.AddImage", <<>>),
       Stmt("route", "v1Private", "", <<"places", "images", ":image_id">>, "PUT",
            "Place.UpdateImage", <<>>),
       Stmt("route", "v1Private", "", <<"places", "images", ":image_id">>, "DELETE",
            "Place.DeleteImage", <<>>) >>

RouterGroups == {"router", "v1Router", "v1Auth", "v1Categories", "v1Places", "v1Private"}

(* router := gin.Default(): the engine is its own root group. *)
GinDefault ==
    [g \in RouterGroups |->
        IF g = "router" THEN [made |-> TRUE, base |-> <<>>, handlers |-> <<>>]
        ELSE [made |-> FALSE, base |-> <<>>, handlers |-> <<>>]]

(* The paths of the requests: every registered pattern and one that no    *)
(* route has.                                                               *)
RequestPaths ==
    {<<"swagger", "*any">>, <<"health">>, <<"v1", "auth", "signup">>,
     <<"v1", "categories">>, <<"v1", "categories", ":id">>,
     <<"v1", "categories", "slug", ":slug">>,
     <<"v1", "places">>, <<"v1", "places", ":id">>,
     <<"v1", "places", "slug", ":slug">>, <<"v1", "places", ":place_id", "images">>,
     <<"v1", "places", "images", ":image_id">>,
     <<"v1", "user", "me">>, <<"v1", "user">>, <<"v1", "reviews">>}

(* A request carries valid credentials, invalid ones or none. *)
HTTPRequests ==
    [method : {"GET", "POST", "PUT", "DELETE"}, path : RequestPaths,
     credential : {"valid", "invalid", "none"}]


(* NewRouter, entry: gin.Default() *)
RouterNew ==
    /\ router.pc = "new"
    /\ router' = [pc |-> "build", next |-> 1, groups |-> GinDefault, routes |-> {}]
    /\ UNCHANGED <<itineraryVars, pointVars, migrate, placeSvc, category>>

(* group.Use(...): the middleware is appended to the handlers of the group. *)
RouterUse ==
    /\ router.pc = "build"
    /\ router.next <= Len(NewRouterStatements)
    /\ LET st == NewRouterStatements[router.next]
       IN  /\ st.op = "use"
           /\ router' = [router EXCEPT
                             !.next = @ + 1,
                             !.groups[st.group].handlers = @ \o st.middleware]
    /\ UNCHANGED <<itineraryVars, pointVars, migrate, placeSvc, category>>

(* parent.Group(path): the new group starts with the handlers its parent  *)
(* has at this moment.                                                      *)
RouterGroup ==
    /\ router.pc = "build"
    /\ router.next <= Len(NewRouterStatements)
    /\ LET st == NewRouterStatements[router.next]
       IN  /\ st.op = "group"
           /\ router' = [router EXCEPT
                             !.next = @ + 1,
                             !.groups[st.group] =
                                 [made |-> TRUE,
                                  base |-> router.groups[st.parent].base \o st.path,
                                  handlers |-> router.groups[st.parent].handlers]]
    /\ UNCHANGED <<itineraryVars, pointVars, migrate, placeSvc, category>>

(* group.GET/POST/PUT/DELETE(path, handler): the route gets the handlers  *)
(* the group has at this moment, then the handler.                         *)
RouterHandle ==
    /\ router.pc = "build"
    /\ router.next <= Len(NewRouterStatements)
    /\ LET st == NewRouterStatements[router.next]
       IN  /\ st.op = "route"
           /\ router' = [router EXCEPT
                             !.next = @ + 1,
                             !.routes = @ \cup
                                 {[method |-> st.method,
                                   path |-> router.groups[st.group].base \o st.path,
                                   group |-> st.group,
                                   chain |-> router.groups[st.group].handlers,
                                   handler |-> st.handler]}]
    /\ UNCHANGED <<itineraryVars, pointVars, migrate, placeSvc, category>>

(* return router *)
RouterReturn ==
    /\ router.pc = "build"
    /\ router.next > Len(NewRouterStatements)
    /\ router' = [router EXCEPT !.pc = "serving"]
    /\ UNCHANGED <<itineraryVars, pointVars, migrate, placeSvc, category>>

(* Whether a middleware lets the request through to the next handler.     *)
(* AuthenticateMiddleware aborts a request without valid credentials.      *)
MiddlewarePasses(middleware, request) ==
    IF middleware = "AuthenticateMiddleware" THEN request.credential = "valid"
    ELSE TRUE

(* The handlers of chain that run for request, up to the first that aborts. *)
RECURSIVE RunChain(_, _, _)
RunChain(chain, request, i) ==
    IF i > Len(chain) THEN [ran |-> chain, aborted |-> FALSE]
    ELSE IF MiddlewarePasses(chain[i], request)
    THEN RunChain(chain, request, i + 1)
    ELSE [ran |-> SubSeq(chain, 1, i), aborted |-> TRUE]

(* engine.ServeHTTP: the route of the request's method and path, its      *)
(* middleware in order, then its handler unless a middleware aborted.      *)
RouterServe ==
    /\ router.pc = "serving"
    /\ \E request \in HTTPRequests :
         LET matching == {rt \in router.routes :
                             rt.method = request.method /\ rt.path = request.path}
         IN  IF matching = {}
             THEN router' = [router EXCEPT !.pc = "served"] @@
                     [request |-> request,
                      outcome |-> [status |-> 404, ran |-> <<>>, handler |-> "none"]]
             ELSE \E rt \in matching :
                    LET run == RunChain(rt.chain, request, 1)
                    IN  router' = [router EXCEPT !.pc = "served"] @@
                           [request |-> request,
                            outcome |-> [status |-> IF run.aborted THEN 401 ELSE 200,
                                         ran |-> run.ran,
                                         handler |-> IF run.aborted THEN "none"
                                                     ELSE rt.handler]]
    /\ UNCHANGED <<itineraryVars, pointVars, migrate, placeSvc, category>>

NextRouter ==
    \/ RouterNew
    \/ RouterUse
    \/ RouterGroup
    \/ RouterHandle
    \/ RouterReturn
    \/ RouterServe

SpecRouter == Init /\ [][NextRouter]_vars

----------------------------------------------------------------------------
(* service.placeService: each method is a sequence of calls on the        *)
(* request and on PlaceRepo; it returns at the first error.                *)

RepoPlaceIds == {"p1", "p2"}

MaxImages == 2

(* The rows behind PlaceRepo: the state of each place and the place of    *)
(* each image.                                                              *)
EmptyPlaceRepo ==
    [places |-> [id \in RepoPlaceIds |-> "absent"],
     images |-> [i \in (1..MaxImages) |-> "none"]]

(* What the caller and the database contribute to one call: whether the   *)
(* request validates, whether it converts to a domain object, whether the  *)
(* reads and the write of the repository succeed.                          *)
PlaceInputs ==
    [valid : BOOLEAN, converts : BOOLEAN, readFails : BOOLEAN, writeFails : BOOLEAN]


(* What a method leaves: the PlaceRepo calls it made, the rows, its error. *)
Returned(called, repo, e) == [calls |-> called, repo |-> repo, err |-> e]

(* PlaceRepo.Get(ctx, id) *)
PlaceRepoGet(repo, id, in) ==
    IF in.readFails THEN "database"
    ELSE IF repo.places[id] = "absent" THEN "not found"
    ELSE "nil"

(* func (s *placeService) Create *)
placeServiceCreate(repo, id, in) ==
    IF ~in.valid THEN Returned(<<>>, repo, "validation")
    ELSE IF ~in.converts THEN Returned(<<>>, repo, "conversion")
    ELSE IF in.writeFails THEN Returned(<<"Create">>, repo, "database")
    ELSE LET created == [repo EXCEPT !.places[id] = "created"]
         IN  Returned(<<"Create", "Get">>, created, PlaceRepoGet(created, id, in))

(* func (s *placeService) Update *)
placeServiceUpdate(repo, id, in) ==
    IF ~in.valid THEN Returned(<<>>, repo, "validation")
    ELSE IF PlaceRepoGet(repo, id, in) # "nil"
    THEN Returned(<<"Get">>, repo, PlaceRepoGet(repo, id, in))
    ELSE IF ~in.converts THEN Returned(<<"Get">>, repo, "conversion")
    ELSE IF in.writeFails THEN Returned(<<"Get", "Update">>, repo, "database")
    ELSE Returned(<<"Get", "Update", "Get">>,
                  [repo EXCEPT !.places[id] = "updated"], "nil")

(* A Delete that does not look the place up first. *)
placeServiceDeleteUnchecked(repo, id, in) ==
    IF in.writeFails THEN Returned(<<"Delete">>, repo, "database")
    ELSE Returned(<<"Delete">>,
                  [repo EXCEPT !.places[id] = "absent"], "nil")

(* func (s *placeService) Delete *)
placeServiceDelete(repo, id, in) ==
    IF PlaceRepoGet(repo, id, in) # "nil"
    THEN Returned(<<"Get">>, repo, PlaceRepoGet(repo, id, in))
    ELSE IF in.writeFails THEN Returned(<<"Get", "Delete">>, repo, "database")
    ELSE Returned(<<"Get", "Delete">>,
                  [repo EXCEPT !.places[id] = "absent"], "nil")

(* func (s *placeService) AddImage; image is the id ToPlaceImage gives the *)
(* new image.                                                               *)
placeServiceAddImage(repo, id, image, in) ==
    IF ~in.valid THEN Returned(<<>>, repo, "validation")
    ELSE IF PlaceRepoGet(repo, id, in) # "nil"
    THEN Returned(<<"Get">>, repo, PlaceRepoGet(repo, id, in))
    ELSE IF in.writeFails THEN Returned(<<"Get", "AddImage">>, repo, "database")
    ELSE Returned(<<"Get", "AddImage", "GetImages">>,
                  [repo EXCEPT !.images[image] = id], "nil")


(* What the service holds after a call: the rows, and the call with what  *)
(* it left.                                                                 *)
AfterCall(op, id, in, out) ==
    [pc |-> "ready", repo |-> out.repo,
     last |-> [op |-> op, id |-> id, in |-> in, before |-> placeSvc.repo,
               calls |-> out.calls, err |-> out.err]]

(* func NewPlaceService *)
NewPlaceService ==
    /\ placeSvc.pc = "new"
    /\ placeSvc' = [pc |-> "ready", repo |-> EmptyPlaceRepo,
                    last |-> [op |-> "none", id |-> "", in |-> <<>>,
                              before |-> EmptyPlaceRepo, calls |-> <<>>,
                              err |-> "nil"]]
    /\ UNCHANGED <<itineraryVars, pointVars, migrate, router, category>>

PlaceCreate ==
    /\ placeSvc.pc = "ready"
    /\ \E id \in RepoPlaceIds, in \in PlaceInputs :
         /\ placeSvc.repo.places[id] = "absent"
         /\ placeSvc' = AfterCall("Create", id, in,
                                  placeServiceCreate(placeSvc.repo, id, in))
    /\ UNCHANGED <<itineraryVars, pointVars, migrate, router, category>>

PlaceUpdate ==
    /\ placeSvc.pc = "ready"
    /\ \E id \in RepoPlaceIds, in \in PlaceInputs :
         placeSvc' = AfterCall("Update", id, in,
                               placeServiceUpdate(placeSvc.repo, id, in))
    /\ UNCHANGED <<itineraryVars, pointVars, migrate, router, category>>

PlaceDelete ==
    /\ placeSvc.pc = "ready"
    /\ \E id \in RepoPlaceIds, in \in PlaceInputs :
         placeSvc' = AfterCall("Delete", id, in,
                               placeServiceDelete(placeSvc.repo, id, in))
    /\ UNCHANGED <<itineraryVars, pointVars, migrate, router, category>>

PlaceAddImage ==
    /\ placeSvc.pc = "ready"
    /\ \E id \in RepoPlaceIds, image \in (1..MaxImages), in \in PlaceInputs :
         /\ placeSvc.repo.images[image] = "none"
         /\ placeSvc' = AfterCall("AddImage", id, in,
                                  placeServiceAddImage(placeSvc.repo, id, image, in))
    /\ UNCHANGED <<itineraryVars, pointVars, migrate, router, category>>

NextPlaceService ==
    \/ NewPlaceService
    \/ PlaceCreate
    \/ PlaceUpdate
    \/ PlaceDelete
    \/ PlaceAddImage

SpecPlaceService == Init /\ [][NextPlaceService]_vars

----------------------------------------------------------------------------
(* dto.CreateCategoryRequest and dto.UpdateCategoryRequest.  A string is  *)
(* the sequence of its characters; a *string is <<>> for nil and <<s>>     *)
(* for a pointer to s.                                                      *)

Texts ==
    {<<>>, <<" ">>, <<"a">>, <<"A">>, <<" ", " ">>, <<" ", "a">>, <<"a", " ">>,
     <<"a", "b">>, <<"a", "A">>, <<" ", "A">>}

TextPointers == {<<>>} \cup {<<t>> : t \in Texts}

Descriptions == {<<>>, << <<"a">> >>, << <<"a", "b">> >>}

UserIDs == {"u1", "u2"}

(* binding:"max=255" *)
MaxNameLength == 255

(* strings.TrimSpace *)
RECURSIVE TrimSpace(_)
TrimSpace(t) ==
    IF t = <<>> THEN t
    ELSE IF Head(t) = " " THEN TrimSpace(Tail(t))
    ELSE IF t[Len(t)] = " " THEN TrimSpace(SubSeq(t, 1, Len(t) - 1))
    ELSE t

(* strings.ToLower *)
ToLower(t) == [i \in DOMAIN t |-> IF t[i] = "A" THEN "a" ELSE t[i]]

(* ierr.NewError(message).Mark(ierr.ErrValidation) *)
NewValidationError(message) == [kind |-> ErrValidation.kind, message |-> message]

CreateCategoryRequests == [Name : Texts, Slug : Texts, Description : Descriptions]

UpdateCategoryRequests ==
    [Name : TextPointers, Slug : TextPointers, Description : Descriptions]

(* validator.ValidateRequest on the binding tags of the request: a        *)
(* required string has at least one character, a pointer that is not nil  *)
(* points to a string in the length range.                                  *)
ValidateRequest(name, slug) ==
    IF name # <<>> /\ (Len(name[1]) < 1 \/ Len(name[1]) > MaxNameLength)
    THEN NewValidationError("Name failed on its tag")
    ELSE IF slug # <<>> /\ Len(slug[1]) < 1
    THEN NewValidationError("Slug failed on its tag")
    ELSE NoError

(* The checks of Validate on a name and a slug that are present. *)
ValidateNameAndSlug(name, slug) ==
    IF name # <<>> /\ TrimSpace(name[1]) = <<>>
    THEN NewValidationError("name is required")
    ELSE IF slug # <<>> /\ TrimSpace(slug[1]) = <<>>
    THEN NewValidationError("slug is required")
    ELSE IF slug # <<>> /\ ToLower(TrimSpace(slug[1])) # TrimSpace(slug[1])
    THEN NewValidationError("invalid slug format")
    ELSE NoError

(* func (req *CreateCategoryRequest) Validate *)
CreateCategoryRequestValidate(request) ==
    IF ValidateRequest(<<request.Name>>, <<request.Slug>>) # NoError
    THEN ValidateRequest(<<request.Name>>, <<request.Slug>>)
    ELSE ValidateNameAndSlug(<<request.Name>>, <<request.Slug>>)

(* func (req *UpdateCategoryRequest) Validate *)
UpdateCategoryRequestValidate(request) ==
    IF ValidateRequest(request.Name, request.Slug) # NoError
    THEN ValidateRequest(request.Name, request.Slug)
    ELSE ValidateNameAndSlug(request.Name, request.Slug)

(* func (req *CreateCategoryRequest) ToCategory *)
ToCategory(user, request) ==
    [ID |-> "", Name |-> request.Name, Slug |-> request.Slug,
     Description |-> request.Description, Metadata |-> "nil",
     CreatedBy |-> user, UpdatedBy |-> user]

(* An ApplyToCategory that copies every field of the request. *)
ApplyToCategoryEveryField(user, request, cat) ==
    [cat EXCEPT
         !.Name = IF request.Name # <<>> THEN request.Name[1] ELSE <<>>,
         !.Slug = IF request.Slug # <<>> THEN request.Slug[1] ELSE <<>>,
         !.Description = request.Description,
         !.UpdatedBy = user]

(* func (req *UpdateCategoryRequest) ApplyToCategory *)
ApplyToCategory(user, request, cat) ==
    [cat EXCEPT
         !.Name = IF request.Name # <<>> THEN request.Name[1] ELSE @,
         !.Slug = IF request.Slug # <<>> THEN request.Slug[1] ELSE @,
         !.Description = IF request.Description # <<>> THEN request.Description ELSE @,
         !.UpdatedBy = user]

(* A create request is validated; one that passes becomes a category. *)
CategoryCreate ==
    /\ category.pc = "new"
    /\ \E user \in UserIDs, request \in CreateCategoryRequests :
         LET e == CreateCategoryRequestValidate(request)
         IN  category' =
                 IF e # NoError
                 THEN [pc |-> "rejected", op |-> "Create", request |-> request, err |-> e]
                 ELSE [pc |-> "created", op |-> "Create", request |-> request, err |-> e,
                       cat |-> ToCategory(user, request)]
    /\ UNCHANGED <<itineraryVars, pointVars, migrate, router, placeSvc>>

(* An update request is validated; one that passes is applied to the      *)
(* category.                                                                *)
CategoryUpdate ==
    /\ category.pc = "created"
    /\ \E user \in UserIDs, request \in UpdateCategoryRequests :
         LET e == UpdateCategoryRequestValidate(request)
         IN  category' =
                 [pc |-> IF e # NoError THEN "rejected" ELSE "updated",
                  op |-> "Update", request |-> request, err |-> e, user |-> user,
                  before |-> category.cat,
                  cat |-> IF e # NoError THEN category.cat
                          ELSE ApplyToCategory(user, request, category.cat)]
    /\ UNCHANGED <<itineraryVars, pointVars, migrate, router, placeSvc>>

NextCategory ==
    \/ CategoryCreate
    \/ CategoryUpdate

SpecCategory == Init /\ [][NextCategory]_vars

----------------------------------------------------------------------------
(* Properties *)

endTimeOf == parseTimes(req)[2]

startTimeOf == parseTimes(req)[1]

VisitOrder(vs) == [i \in 1..Len(vs) |-> vs[i].Place]

Running == pc \notin {"idle", "failed"}

(* The places of `remaining` at minimal matrix distance from `from`. *)
Nearest(from, remaining) ==
    {p \in remaining :
        \A q \in remaining :
            GetDistance(matrix, from, p) <= GetDistance(matrix, from, q)}

(* The greedy test of the spec: start (0,0), A(0,1), B(0,5), C(0,2). *)
GreedyTestInput ==
    /\ pc # "idle"
    /\ req.CurrentLocation = 0
    /\ Range(req.SelectedPlaces) = {1, 2, 3}
    /\ Len(req.SelectedPlaces) = 3

(* C1: every pick of the greedy loop is an unvisited place at minimal      *)
(* matrix distance from the current location, and on the greedy test the   *)
(* visits are A, C, B whatever the order of the request's list.            *)
C1_PickIsNearest ==
    /\ lastPick # NoPick =>
          /\ lastPick.nearest \in Nearest(lastPick.from, lastPick.remaining)
          /\ lastPick.minDist =
                GetDistance(matrix, lastPick.from, lastPick.nearest)
    /\ GreedyTestInput =>
          \A i \in 1..Len(visits) : visits[i].Place = <<1, 3, 2>>[i]

C1_Witness ==
    /\ GreedyTestInput
    /\ req.SelectedPlaces = <<2, 3, 1>>
    /\ pc = "tx"
    /\ VisitOrder(route.Visits) = <<1, 3, 2>>

(* C2: when several unvisited places are at the same minimal distance,     *)
(* the pick is the one with the lowest place id.                           *)
C2_TieGoesToLowestId ==
    lastPick # NoPick =>
        \A q \in Nearest(lastPick.from, lastPick.remaining) :
            lastPick.nearest <= q

(* C3: a step whose departure is after windowEnd fails the optimization    *)
(* with the time-window error, every visit of a returned route departs by  *)
(* windowEnd, and window 10:00-12:00 with dwell 60 and two places all 30   *)
(* minutes apart fails.                                                    *)
FeasibilityTestInput ==
    /\ matrix # NoMatrix
    /\ req.StartTime = 600 /\ req.EndTime = 720
    /\ req.VisitDuration = 60
    /\ Cardinality(places) = 2
    /\ \A from \in {StartLoc} \cup places : \A to \in places \ {from} :
          GetTime(matrix, from, to) = 30

C3_DepartureWithinWindow ==
    /\ lastPick # NoPick =>
          lastPick.departure =
              lastPick.clock + lastPick.travelTime + req.VisitDuration
    /\ (lastPick # NoPick /\ lastPick.departure > endTimeOf) =>
          pc = "failed" /\ err = ErrTimeWindow /\ route = NoRoute
    /\ route # NoRoute =>
          \A i \in 1..Len(route.Visits) :
              route.Visits[i].DepartureTime <= endTimeOf
    /\ response # NoResponse =>
          \A i \in 1..Len(response.route.Visits) :
              response.route.Visits[i].DepartureTime <= endTimeOf
    /\ (FeasibilityTestInput /\ pc # "loop") =>
          pc = "failed" /\ err = ErrTimeWindow /\ route = NoRoute

C3_Witness ==
    /\ FeasibilityTestInput
    /\ pc = "failed"
    /\ err = ErrTimeWindow
    /\ lastPick.departure = 780

(* C4: when the loop aborts on a window overflow, no visit is returned and *)
(* nothing is persisted: no route, no response, no transaction, no header  *)
(* and no visit row, also when visits had already been computed.           *)
C4_NoPartialEmission ==
    err = ErrTimeWindow =>
        /\ route = NoRoute
        /\ response = NoResponse
        /\ tx = NoTx
        /\ db.itineraries = {} /\ db.visits = {}
        /\ calls.persist = 0 /\ calls.writes = 0

C4_Witness ==
    /\ err = ErrTimeWindow
    /\ Len(visits) = 2
    /\ route = NoRoute
    /\ db.visits = {}

(* C5: persistence is all-or-nothing: after a failed header write, visit   *)
(* write or commit no header and no visit row is in the store; after a     *)
(* successful call the header and every visit row of the route are.        *)
C5_AllOrNothing ==
    /\ (pc = "failed" /\ calls.persist > 0) =>
          db.itineraries = {} /\ db.visits = {}
    /\ pc = "done" =>
          /\ db.itineraries = {ItineraryRow(req, route)}
          /\ db.visits = {VisitRow(ItineraryId, route.Visits[i]) :
                             i \in 1..Len(route.Visits)}
          /\ Cardinality(db.visits) = Len(route.Visits)

C5_Witness ==
    /\ pc = "failed"
    /\ err = ErrStore("visit")
    /\ calls.writes = 3
    /\ db.itineraries = {} /\ db.visits = {}

(* C6: persistence is entered at most once per call and only after         *)
(* validation, place resolution, the matrix fetch and the whole loop have  *)
(* succeeded; a validation error, an unresolved place, a provider error,   *)
(* a cancelled matrix fetch or an infeasible schedule leaves the store     *)
(* untouched.                                                              *)
EarlyErrors ==
    {ErrValidation, ErrPlaceNotFound, ErrTimeWindow}
        \cup {ErrMatrix(e) : e \in ProviderErrors}

C6_PersistOnceAfterSuccess ==
    /\ calls.persist <= 1
    /\ calls.persist > 0 =>
          /\ validatorStruct(req)
          /\ Range(req.SelectedPlaces) \subseteq PlaceIds
          /\ places = Range(req.SelectedPlaces)
          /\ calls.matrix = 1 /\ matrix # NoMatrix
          /\ unvisited = {}
          /\ route # NoRoute /\ route.Feasible
          /\ Len(route.Visits) = Len(req.SelectedPlaces)
    /\ err \in EarlyErrors =>
          /\ calls.persist = 0 /\ calls.writes = 0
          /\ tx = NoTx
          /\ db.itineraries = {} /\ db.visits = {}

C6_Witness ==
    /\ pc = "failed"
    /\ err = ErrMatrix([kind |-> "context canceled"])
    /\ calls.matrix = 1
    /\ calls.persist = 0

(* C7: two runs of optimizeRoute on the same request and the same matrix  *)
(* return the same visits with the same timestamps, or the same error.     *)
C7_SameRouteTwice ==
    (firstRun # NoRoute /\ (pc = "tx" \/ (pc = "failed" /\ err = ErrTimeWindow))) =>
        firstRun.route = route /\ firstRun.err = err

(* C8: in every route, in progress or returned, each visit departs its     *)
(* dwell after it arrives, the first visit arrives at windowStart plus the *)
(* matrix time from the start location, and each later visit arrives at    *)
(* the previous departure plus the matrix time from the previous place.    *)
TimelineHolds(vs) ==
    \A i \in 1..Len(vs) :
        LET prevLoc  == IF i = 1 THEN StartLoc ELSE vs[i - 1].Place
            prevTime == IF i = 1 THEN startTimeOf ELSE vs[i - 1].DepartureTime
        IN  /\ vs[i].VisitDuration = req.VisitDuration
            /\ vs[i].DepartureTime = vs[i].ArrivalTime + vs[i].VisitDuration
            /\ vs[i].TravelTimeFromPrevious = GetTime(matrix, prevLoc, vs[i].Place)
            /\ vs[i].ArrivalTime = prevTime + vs[i].TravelTimeFromPrevious

C8_Timeline ==
    /\ TimelineHolds(visits)
    /\ route # NoRoute => TimelineHolds(route.Visits)
    /\ response # NoResponse => TimelineHolds(response.route.Visits)

C8_Witness ==
    /\ pc = "done"
    /\ Len(response.route.Visits) = 3
    /\ req.VisitDuration = 60
    /\ response.route.Visits[1].ArrivalTime = 630
    /\ response.route.Visits[2].TravelTimeFromPrevious = 60
    /\ response.route.Visits[3].DepartureTime = 900

(* C9: the error of an infeasible schedule is a value of its own kind that *)
(* carries requiredMinutes and availableMinutes, with availableMinutes =   *)
(* windowEnd - windowStart < requiredMinutes.                              *)
C9_InfeasibleCarriesDiagnostic ==
    err = ErrTimeWindow =>
        /\ err.kind = "InfeasibleSchedule"
        /\ {"requiredMinutes", "availableMinutes"} \subseteq DOMAIN err
        /\ err.availableMinutes = endTimeOf - startTimeOf
        /\ err.requiredMinutes > err.availableMinutes

(* C10: the time-window failure is raised at the first stop of the greedy  *)
(* order that departs after windowEnd: every stop before it departed in    *)
(* time, the failing stop is still unvisited, and once the failure is      *)
(* raised no further stop is selected or recorded.                         *)
C10_FailsAtFirstOverflow ==
    /\ [](err = ErrTimeWindow =>
            /\ lastPick.departure > endTimeOf
            /\ \A i \in 1..Len(visits) : visits[i].DepartureTime <= endTimeOf
            /\ lastPick.remaining = unvisited
            /\ lastPick.nearest \in unvisited
            /\ sequenceOrder = Len(visits) + 1
            /\ Len(visits) + Cardinality(unvisited) = Cardinality(places))
    /\ [][err = ErrTimeWindow => UNCHANGED <<optVars, route, err, pc>>]_vars

C10_Witness ==
    /\ err = ErrTimeWindow
    /\ Len(visits) = 1
    /\ Cardinality(unvisited) = 2
    /\ visits[1].DepartureTime <= endTimeOf
    /\ lastPick.departure > endTimeOf

(* Sums over the visits of a route, first visit first. *)
RECURSIVE SumTravelMinutes(_)
SumTravelMinutes(vs) ==
    IF vs = <<>> THEN 0
    ELSE vs[1].TravelTimeFromPrevious + SumTravelMinutes(Tail(vs))

RECURSIVE SumDistanceKm(_)
SumDistanceKm(vs) ==
    IF vs = <<>> THEN 0
    ELSE vs[1].DistanceFromPrevious + SumDistanceKm(Tail(vs))

C12_SinglePlace ==
    (pc # "idle" /\ Len(req.SelectedPlaces) = 1 /\ matrix # NoMatrix) =>
        LET place == req.SelectedPlaces[1]
            time  == GetTime(matrix, StartLoc, place)
            fits  == startTimeOf + time + req.VisitDuration <= endTimeOf
        IN  /\ (fits /\ pc # "loop") =>
                    /\ route.state = "ok"
                    /\ Len(route.Visits) = 1
                    /\ route.Visits[1].SequenceOrder = 1
                    /\ route.Visits[1].Place = place
                    /\ route.Visits[1].TravelTimeFromPrevious = time
                    /\ route.Visits[1].ArrivalTime = startTimeOf + time
            /\ ~fits => route = NoRoute

C12_Witness ==
    /\ pc = "done"
    /\ Len(req.SelectedPlaces) = 1
    /\ Len(route.Visits) = 1
    /\ route.Visits[1].TravelTimeFromPrevious = 2 * TravelUnit
    /\ route.Visits[1].ArrivalTime = WindowStart + 2 * TravelUnit

HasDuplicate(sel) == \E i, j \in 1..Len(sel) : i # j /\ sel[i] = sel[j]

(* C13: a request whose window ends exactly two hours after its start is  *)
(* not rejected for its window, and a request whose window ends earlier   *)
(* than two hours after its start is rejected with a ValidationError.     *)
C13_WindowBoundary ==
    pc # "idle" =>
        /\ (endTimeOf = startTimeOf + TwoHours
                /\ ValidSelectedPlaces(req.SelectedPlaces)
                /\ ValidVisitDuration(req.VisitDuration)) => err # ErrValidation
        /\ endTimeOf < startTimeOf + TwoHours =>
                pc = "failed" /\ err = ErrValidation

(* C14: an empty selected_places list, one of more than five entries and  *)
(* one that names a place twice are rejected with a ValidationError,      *)
(* before the places query and before any matrix call.                     *)
C14_ListRejectedEarly ==
    (pc # "idle" /\ (\/ Len(req.SelectedPlaces) = 0
                     \/ Len(req.SelectedPlaces) > MaxPlaces
                     \/ HasDuplicate(req.SelectedPlaces))) =>
        /\ pc = "failed"
        /\ err = ErrValidation
        /\ calls.catalog = 0
        /\ calls.matrix = 0

(* C15: a valid request that selects an id without a row, the places      *)
(* query having answered, fails with PlaceNotFound naming the ids without  *)
(* a row, and reaches neither the routing client nor the optimizer nor the *)
(* store's transaction.                                                     *)
C15_PlaceNotFoundNamesIds ==
    (/\ pc \notin {"idle", "fetch"}
     /\ validatorStruct(req)
     /\ Range(req.SelectedPlaces) \ PlaceIds # {}
     /\ err # ErrStore("places")) =>
        /\ pc = "failed"
        /\ err.kind = "ErrPlaceNotFound"
        /\ "ids" \in DOMAIN err
        /\ err.ids = Range(req.SelectedPlaces) \ PlaceIds
        /\ calls.matrix = 0
        /\ calls.persist = 0
        /\ matrix = NoMatrix /\ lastPick = NoPick /\ route = NoRoute
        /\ tx = NoTx /\ db = [itineraries |-> {}, visits |-> {}]

(* C16: whatever a concurrent GetItinerary read, it is either nothing of  *)
(* the itinerary or its header together with every visit of the route, in *)
(* the order of the route.                                                  *)
C16_ReaderSeesAllOrNothing ==
    observed.state = "read" =>
        \/ observed.itineraries = {} /\ observed.visits = {}
        \/ /\ route.state = "ok"
           /\ observed.itineraries = {ItineraryRow(req, route)}
           /\ observed.visits =
                  {VisitRow(ItineraryId, route.Visits[i]) : i \in 1..Len(route.Visits)}
           /\ \A i \in 1..Len(route.Visits) :
                  \E row \in observed.visits :
                      row.sequence_order = i /\ row.place_id = route.Visits[i].Place

(* A read between two visit writes of an open transaction. *)
C16_Witness ==
    /\ observed.state = "read"
    /\ observed.during = "open"
    /\ observed.pending = 2
    /\ observed.itineraries = {}
    /\ pc = "visits"

(* A read after the commit of a route of three visits. *)
C16_WitnessCommitted ==
    /\ observed.state = "read"
    /\ Cardinality(observed.visits) = 3

(* C17: the routing client is called at most once per plan, no place is   *)
(* selected before its matrix is there, and when it returns an error the  *)
(* plan fails with that error, wrapped, without a second call and without *)
(* a place having been selected.                                           *)
C17_MatrixOnceBeforeSelection ==
    /\ calls.matrix <= 1
    /\ (pc = "loop" \/ lastPick # NoPick \/ visits # <<>>) =>
            calls.matrix = 1 /\ matrix.state = "ok"
    /\ (calls.matrix = 1 /\ matrix = NoMatrix) =>
            /\ pc = "failed"
            /\ \E e \in ProviderErrors : err = ErrMatrix(e)
            /\ lastPick = NoPick /\ visits = <<>> /\ route = NoRoute
            /\ calls.persist = 0

(* The provider failed for a request of three known places. *)
C17_Witness ==
    /\ pc = "failed"
    /\ calls.matrix = 1
    /\ err = ErrMatrix([kind |-> "ProviderUnavailable"])
    /\ Cardinality(places) = 3

(* C18: a request without visit_duration is planned with 30 minutes at    *)
(* every place, a request without transport_mode with mode driving, and a *)
(* request whose visit_duration is outside 15..120 is rejected with a     *)
(* ValidationError.                                                         *)
C18_DefaultsApplied ==
    pc # "idle" =>
        /\ req.VisitDuration = 0 =>
                \A i \in 1..Len(visits) :
                    /\ visits[i].VisitDuration = DefaultVisitDuration
                    /\ visits[i].DepartureTime =
                           visits[i].ArrivalTime + DefaultVisitDuration
        /\ (req.TransportMode = "" /\ matrix # NoMatrix) =>
                matrix.mode = DefaultTransportMode
        /\ (req.VisitDuration # 0 /\ (\/ req.VisitDuration < MinVisitDuration
                                      \/ req.VisitDuration > MaxVisitDuration)) =>
                pc = "failed" /\ err = ErrValidation

InRange(p) ==
    /\ p.Latitude >= -MaxLatitude /\ p.Latitude <= MaxLatitude
    /\ p.Longitude >= -MaxLongitude /\ p.Longitude <= MaxLongitude

(* C19: IsValid is false for every point with latitude below -90 or above *)
(* 90 or longitude below -180 or above 180, and true for every other      *)
(* point, the limits -90, 90, -180 and 180 included.                       *)
C19_IsValidRange ==
    pointCall.op = "IsValid" =>
        LET p == pointCall.input
        IN  /\ (\/ p.Latitude < -90 * Degree \/ p.Latitude > 90 * Degree
                \/ p.Longitude < -180 * Degree \/ p.Longitude > 180 * Degree)
                   => pointCall.result = FALSE
            /\ ~(\/ p.Latitude < -90 * Degree \/ p.Latitude > 90 * Degree
                 \/ p.Longitude < -180 * Degree \/ p.Longitude > 180 * Degree)
                   => pointCall.result = TRUE

(* The point on two limits is valid. *)
C19_Witness ==
    /\ pointCall.op = "IsValid"
    /\ pointCall.input = Point(-180 * Degree, 90 * Degree)
    /\ pointCall.result = TRUE

(* The coordinates an input of a decoder carries: the two numbers of a    *)
(* coordinates list or of a WKT text, or the longitude and latitude       *)
(* members of a document in the simple form (a missing member is 0).      *)
InputCoordinates(call) ==
    IF call.op = "PointFromGeoJSON"
    THEN IF Len(call.input.Coordinates) = 2
         THEN {Point(call.input.Coordinates[1], call.input.Coordinates[2])}
         ELSE {}
    ELSE IF call.op = "PointFromWKT"
    THEN IF Len(call.input.numbers) = 2
         THEN {Point(call.input.numbers[1], call.input.numbers[2])}
         ELSE {}
    ELSE IF call.op = "UnmarshalJSON"
    THEN IF TakesGeoJSONBranch(call.input)
         THEN LET list == jsonUnmarshalGeoJSON(call.input).Coordinates
              IN  IF Len(list) = 2 THEN {Point(list[1], list[2])} ELSE {}
         ELSE IF call.input.longitude.tag = "value" \/ call.input.latitude.tag = "value"
              THEN {Point(IF call.input.longitude.tag = "value"
                          THEN call.input.longitude.v ELSE 0,
                          IF call.input.latitude.tag = "value"
                          THEN call.input.latitude.v ELSE 0)}
              ELSE {}
    ELSE {}

Decoders == {"PointFromGeoJSON", "UnmarshalJSON", "PointFromWKT"}

(* C20: every decoder returns an error for an input whose coordinates are *)
(* out of range, and the Point of a successful decode is in range and has *)
(* exactly the longitude and latitude of the input.                        *)
C20_DecodersValidate ==
    pointCall.op \in Decoders =>
        /\ \A c \in InputCoordinates(pointCall) :
               ~InRange(c) => ~pointCall.result.ok
        /\ pointCall.result.ok =>
               /\ InRange(pointCall.result.point)
               /\ IsValid(pointCall.result.point)
               /\ \A c \in InputCoordinates(pointCall) : pointCall.result.point = c
               /\ pointCall.op = "UnmarshalJSON" => receiver = pointCall.result.point

(* A WKT text one tick beyond the latitude limit is refused. *)
C20_Witness ==
    /\ pointCall.op = "PointFromWKT"
    /\ pointCall.input.numbers = <<0, MaxLatitude + 1>>
    /\ pointCall.input.head = "POINT(" /\ pointCall.input.closed
    /\ ~pointCall.result.ok

(* C21: for a valid Point p, MarshalJSON writes the GeoJSON form with the *)
(* longitude first whatever p was decoded from, decoding these bytes      *)
(* succeeds and gives p, and encoding the decoded Point gives the same    *)
(* bytes again.                                                             *)
C21_JSONRoundTrip ==
    /\ pointCall.op = "MarshalJSON" =>
           /\ pointCall.result.type = "Point"
           /\ Len(pointCall.result.coordinates) = 2
           /\ ParseFloat(pointCall.result.coordinates[1]) = pointCall.input.Longitude
           /\ ParseFloat(pointCall.result.coordinates[2]) = pointCall.input.Latitude
           /\ pointCall.first.state = "encoded" => pointCall.result = pointCall.first.bytes
    /\ (/\ pointCall.op = "UnmarshalJSON"
        /\ "first" \in DOMAIN pointCall
        /\ InRange(pointCall.first.point)) =>
           /\ pointCall.result.ok
           /\ pointCall.result.point = pointCall.first.point
           /\ receiver = pointCall.first.point

(* A Point with seven decimals, encoded, decoded and encoded again. *)
C21_Witness ==
    /\ pointPc = "returned"
    /\ pointCall.op = "MarshalJSON"
    /\ pointCall.first.state = "encoded"
    /\ pointCall.first.point = Point(-(73 * Degree + 7898006), 19 * Degree + 9975004)
    /\ pointCall.result = pointCall.first.bytes

GeoJSONDocument(c) ==
    [wellFormed |-> TRUE, type |-> Member("Point"),
     coordinates |-> Member(<<c.Longitude, c.Latitude>>),
     longitude |-> Absent, latitude |-> Absent]

FlatDocument(c) ==
    [wellFormed |-> TRUE, type |-> Absent, coordinates |-> Absent,
     longitude |-> Member(c.Longitude), latitude |-> Member(c.Latitude)]

(* C22: a WKT text decodes to the Point that the GeoJSON form and the     *)
(* flat form of the same coordinate decode to, its first number being the *)
(* longitude, and PointFromWKT(ToWKT(p)) is p for every valid Point p.    *)
C22_WKTEquivalentAndRoundTrip ==
    pointCall.op = "PointFromWKT" =>
        /\ pointCall.result.ok =>
               LET c == Point(pointCall.input.numbers[1], pointCall.input.numbers[2])
               IN  /\ pointCall.result.point = c
                   /\ UnmarshalJSON(ZeroPoint, GeoJSONDocument(c))[2] = pointCall.result
                   /\ UnmarshalJSON(ZeroPoint, FlatDocument(c))[2] = pointCall.result
        /\ ("first" \in DOMAIN pointCall /\ InRange(pointCall.first.point)) =>
               /\ pointCall.result.ok
               /\ pointCall.result.point = pointCall.first.point

(* C23: UnmarshalJSON decodes a GeoJSON Point document from its           *)
(* coordinates even when it also has flat members, fails when the         *)
(* coordinates of a GeoJSON Point are not exactly two, decodes a document *)
(* that is not a GeoJSON Point from its latitude and longitude members,   *)
(* and fails for an object with neither a Point type nor a latitude or    *)
(* longitude member.                                                        *)
C23_GeoJSONFirstThenFlat ==
    pointCall.op = "UnmarshalJSON" =>
        LET doc == pointCall.input
            isPoint == doc.wellFormed /\ doc.type = Member("Point")
            hasList == doc.coordinates.tag = "value"
            hasFlat == doc.longitude.tag = "value" /\ doc.latitude.tag = "value"
            noFlat  == doc.longitude = Absent /\ doc.latitude = Absent
        IN  /\ (isPoint /\ hasList /\ Len(doc.coordinates.v) = 2
                  /\ InRange(Point(doc.coordinates.v[1], doc.coordinates.v[2]))) =>
                   pointCall.result =
                       Decoded(Point(doc.coordinates.v[1], doc.coordinates.v[2]))
            /\ (isPoint /\ hasList /\ Len(doc.coordinates.v) # 2) =>
                   ~pointCall.result.ok
            /\ (doc.wellFormed /\ ~isPoint /\ doc.type # Mistyped /\ hasFlat
                  /\ InRange(Point(doc.longitude.v, doc.latitude.v))) =>
                   pointCall.result = Decoded(Point(doc.longitude.v, doc.latitude.v))
            /\ (~isPoint /\ noFlat) => ~pointCall.result.ok

(* C25: when UnmarshalJSON returns an error the receiver has the          *)
(* longitude and latitude it had before the call.                          *)
C25_ErrorLeavesReceiver ==
    (pointCall.op = "UnmarshalJSON" /\ ~pointCall.result.ok) =>
        receiver = pointCall.before

(* C26: the visits of a returned route are a permutation of the requested *)
(* places: as many visits as places, every requested place in exactly one *)
(* visit, and the i-th visit emitted has sequence number i.                *)
C26_VisitsArePermutation ==
    route.state = "ok" =>
        /\ Len(route.Visits) = Len(req.SelectedPlaces)
        /\ \A i \in 1..Len(req.SelectedPlaces) :
               Cardinality({j \in 1..Len(route.Visits) :
                               route.Visits[j].Place = req.SelectedPlaces[i]}) = 1
        /\ \A j \in 1..Len(route.Visits) : route.Visits[j].SequenceOrder = j

(* A route of three places that are not visited in the requested order. *)
C26_Witness ==
    /\ pc = "done"
    /\ Len(route.Visits) = 3
    /\ VisitOrder(route.Visits) # req.SelectedPlaces

(* C27: an iteration of the greedy loop either fails the plan or moves    *)
(* exactly one place from the unvisited set to the visits, the loop is    *)
(* left only by that failure or with no place unvisited, and a loop that  *)
(* was entered ends, with the route or with the time-window error.         *)
C27_LoopTerminates ==
    /\ [](pc = "loop" => Len(visits) + Cardinality(unvisited) = Cardinality(places))
    /\ [][pc = "loop" =>
            \/ /\ pc' = "loop"
               /\ unvisited' \subseteq unvisited
               /\ Cardinality(unvisited') = Cardinality(unvisited) - 1
               /\ Len(visits') = Len(visits) + 1
            \/ pc' = "failed" /\ err' = ErrTimeWindow /\ UNCHANGED <<unvisited, visits>>
            \/ /\ pc' = "tx" /\ unvisited = {} /\ route'.state = "ok"
               /\ Len(route'.Visits) = Cardinality(places)]_vars
    /\ (pc = "loop") ~> (pc = "tx" \/ (pc = "failed" /\ err = ErrTimeWindow))

(* The loop ended after three iterations. *)
C27_Witness ==
    /\ pc = "tx"
    /\ Cardinality(places) = 3
    /\ Len(visits) = 3
    /\ unvisited = {}

(* C24: a run of migrate with -dry-run executes no statement on the       *)
(* database and leaves its extensions and schema as they were when it     *)
(* connected.                                                               *)
C24_DryRunChangesNothing ==
    migrate.dryRun =>
        /\ migrate.executed = <<>>
        /\ migrate.database = migrate.atConnect

(* The routes the claim names as guarded, and those it names as public. *)
IsGuarded(method, path) ==
    \/ /\ method \in {"POST", "PUT", "DELETE"}
       /\ Len(path) >= 2
       /\ path[1] = "v1" /\ path[2] \in {"categories", "places"}
    \/ method = "PUT" /\ path = <<"v1", "user">>
    \/ method = "GET" /\ path = <<"v1", "user", "me">>

IsPublicRead(method, path) ==
    /\ method = "GET"
    /\ Len(path) >= 2
    /\ path[1] = "v1" /\ path[2] \in {"categories", "places"}

(* C28: every route that changes categories, places, place images or the  *)
(* user, and GET /v1/user/me, is registered only with the                  *)
(* AuthenticateMiddleware in front of its handler, so that handler does    *)
(* not run for a request the middleware rejects; the GET routes on         *)
(* categories and places have no such middleware and their handlers run    *)
(* without credentials.                                                     *)
C28_WritesBehindAuthentication ==
    /\ router.pc \in {"build", "serving", "served"} =>
           \A rt \in router.routes :
               /\ IsGuarded(rt.method, rt.path) =>
                      /\ rt.group = "v1Private"
                      /\ "AuthenticateMiddleware" \in Range(rt.chain)
               /\ IsPublicRead(rt.method, rt.path) =>
                      "AuthenticateMiddleware" \notin Range(rt.chain)
    /\ router.pc = "served" =>
           /\ (/\ IsGuarded(router.request.method, router.request.path)
               /\ router.request.credential # "valid") =>
                  router.outcome.handler = "none"
           /\ (/\ IsPublicRead(router.request.method, router.request.path)
               /\ router.outcome.status # 404) =>
                  router.outcome.handler # "none"

(* POST /v1/places without credentials stops at the middleware. *)
C28_Witness ==
    /\ router.pc = "served"
    /\ router.request = [method |-> "POST", path |-> <<"v1", "places">>,
                         credential |-> "none"]
    /\ router.outcome.status = 401
    /\ router.outcome.handler = "none"
    /\ Cardinality(router.routes) = 21

PlaceRepoWrites == {"Create", "Update", "Delete", "AddImage"}

(* C29: a placeService call whose request fails validation makes no       *)
(* PlaceRepo call at all, and an Update, Delete or AddImage whose place id *)
(* does not resolve returns the error of PlaceRepo.Get having called only  *)
(* Get; in both cases the rows of the repository are as before.            *)
C29_NoWriteOnInvalidOrMissing ==
    placeSvc.pc = "ready" =>
        LET last == placeSvc.last
        IN  /\ (last.op \in {"Create", "Update", "AddImage"} /\ ~last.in.valid) =>
                   /\ last.err = "validation"
                   /\ last.calls = <<>>
                   /\ placeSvc.repo = last.before
            /\ (/\ last.op \in {"Update", "Delete", "AddImage"}
                /\ last.op = "Delete" \/ last.in.valid
                /\ last.before.places[last.id] = "absent") =>
                   /\ last.err = PlaceRepoGet(last.before, last.id, last.in)
                   /\ last.err # "nil"
                   /\ last.calls = <<"Get">>
                   /\ Range(last.calls) \cap PlaceRepoWrites = {}
                   /\ placeSvc.repo = last.before

(* A Delete of a place that is not there, while other places and an image *)
(* are. *)
C29_Witness ==
    /\ placeSvc.pc = "ready"
    /\ placeSvc.last.op = "Delete"
    /\ placeSvc.last.before.places[placeSvc.last.id] = "absent"
    /\ placeSvc.last.err = "not found"
    /\ placeSvc.last.calls = <<"Get">>
    /\ \E id \in RepoPlaceIds : placeSvc.repo.places[id] = "updated"
    /\ \E i \in (1..MaxImages) : placeSvc.repo.images[i] # "none"

(* A string of spaces only, the empty one included. *)
IsBlank(t) == \A i \in DOMAIN t : t[i] = " "

HasUpperCase(t) == \E i \in DOMAIN t : t[i] = "A"

(* C30: category validation rejects with a validation error a name that   *)
(* is blank and a slug that is blank or has an upper-case letter; in an    *)
(* update request an absent (nil) field is not checked; ApplyToCategory    *)
(* sets the fields the request has and UpdatedBy, and leaves the others.   *)
C30_CategoryValidationAndApply ==
    /\ (category.pc # "new" /\ category.op = "Create") =>
           ((\/ IsBlank(category.request.Name)
             \/ IsBlank(category.request.Slug)
             \/ HasUpperCase(category.request.Slug)) =>
                category.err.kind = ErrValidation.kind)
    /\ (category.pc # "new" /\ category.op = "Update") =>
           LET request == category.request
               badName == request.Name # <<>> /\ IsBlank(request.Name[1])
               badSlug == /\ request.Slug # <<>>
                          /\ IsBlank(request.Slug[1]) \/ HasUpperCase(request.Slug[1])
           IN  /\ (badName \/ badSlug) => category.err.kind = ErrValidation.kind
               /\ (request.Name = <<>> /\ ~badSlug) => category.err = NoError
               /\ (request.Slug = <<>> /\ ~badName) => category.err = NoError
    /\ category.pc = "updated" =>
           LET request == category.request
               before == category.before
               cat == category.cat
           IN  /\ cat.Name = IF request.Name = <<>> THEN before.Name ELSE request.Name[1]
               /\ cat.Slug = IF request.Slug = <<>> THEN before.Slug ELSE request.Slug[1]
               /\ cat.Description = IF request.Description = <<>>
                                    THEN before.Description
                                    ELSE request.Description
               /\ cat.UpdatedBy = category.user
               /\ cat.ID = before.ID
               /\ cat.Metadata = before.Metadata
               /\ cat.CreatedBy = before.CreatedBy

(* An update by another user that has a slug only: name and description   *)
(* stay.                                                                    *)
C30_Witness ==
    /\ category.pc = "updated"
    /\ category.request.Name = <<>>
    /\ category.request.Description = <<>>
    /\ category.request.Slug # <<>>
    /\ category.cat.Slug # category.before.Slug
    /\ category.cat.Name = category.before.Name
    /\ category.before.Description # <<>>
    /\ category.cat.Description = category.before.Description
    /\ category.cat.UpdatedBy # category.before.UpdatedBy
====
